---- MODULE Spec2Model ----
(***************************************************************************)
(* A model of pm2-monitor.js: the restart detector, the stabilization      *)
(* poller, the threshold evaluator, the throttled Slack notifier and the   *)
(* bounded status history.                                                 *)
(*                                                                         *)
(* Node runs every handler to its next await without interleaving, so one  *)
(* action is one such run: from the resolution of the awaited I/O to the   *)
(* next I/O that the handler awaits.  sendSlackNotification is never       *)
(* awaited by its callers: its axios.post stays in flight (inFlight) and   *)
(* resolves in a later step of its own.                                    *)
(***************************************************************************)
EXTENDS Integers, Sequences, FiniteSets, Bags, TLC

VARIABLES
    pc,                         \* position of initialize()
    webhookUrlValid,            \* CONFIG.SLACK_WEBHOOK_URL passes the check of line 222
    appRestartHistory,          \* Map: app name -> last aggregated restart count
    notificationThrottleCache,  \* Map: <<appName, title>> -> Date.now() of the delivered call
    now,                        \* Date.now(), in ms
    cycles,                     \* the monitorProcesses() invocations in flight
    polls,                      \* the setInterval closures of startPollingAppStatus
    inFlight,                   \* bag of the axios.post calls not yet settled
    file,                       \* parsed content of STATUS_LOG_FILE (<<>> when missing)
    started,                    \* number of monitorProcesses() invocations so far
    last,                       \* what the handler that just ran did (its input, its calls,
                                \* its console lines), until it returns to the event loop
    daemonRestartTime           \* pm2_env.restart_time of instance 0 of "api" in the pm2
                                \* daemon, for the runs whose snapshots are read from it

vars == <<pc, webhookUrlValid, appRestartHistory, notificationThrottleCache, now,
          cycles, polls, inFlight, file, started, last, daemonRestartTime>>

-----------------------------------------------------------------------------
(* CONFIG *)

EXCLUDED_APPS == {"pm2-monitor", "pm2-logrotate"}
THRESHOLDS_CPU == 80
THRESHOLDS_MEMORY == 450
THROTTLE_DURATION_MS == 30 * 1000
RECHECK_MAX_ATTEMPTS == 12
MAX_HISTORY == 1440

-----------------------------------------------------------------------------
(* Bounds of the model *)

MaxRestartTime == 1     \* pm2_env.restart_time of an instance ranges over 0..MaxRestartTime
MaxCycles == 2          \* monitorProcesses() invocations in one run (the eager one included)
MaxPolls == 2           \* polls alive at the same time
MaxPending == 2         \* getPm2Processes() calls of one poll pending at the same time

\* The instants Date.now() takes: 0, just inside the throttle window, its
\* end, and a later one.
Instants == {0, THROTTLE_DURATION_MS - 1, THROTTLE_DURATION_MS, 2 * THROTTLE_DURATION_MS}

-----------------------------------------------------------------------------
(* The output of `pm2 jlist` *)

BytesPerMB == 1024 * 1024

\* monit.memory values: exactly 450 MB, and 450.01 MB
MemoryBytes == {450 * BytesPerMB, 450 * BytesPerMB + 10486}

\* pm_id 0 and 1 are the two instances of the cluster "api", 2 is "worker",
\* 3 is the monitor itself, which EXCLUDED_APPS names.
NameOfId == <<"api", "api", "worker", "pm2-monitor">>

RawProc(id, st, r, c, m) ==
    [pm_id |-> id, name |-> NameOfId[id + 1], status |-> st,
     restart_time |-> r, cpu |-> c, memory |-> m]

RestartTimes == 0..MaxRestartTime

\* An instance without load, online or stopped.
Plain(id) == {RawProc(id, st, r, 0, 0) : st \in {"online", "stopped"}, r \in RestartTimes}

\* Instance 0 with CPU and memory readings at and above the thresholds.
Loaded == {RawProc(0, "online", 0, c, m) : c \in {80, 85}, m \in MemoryBytes}

Excluded == {RawProc(3, "errored", MaxRestartTime, 0, 0)}

\* The lists `pm2 jlist` prints, by ascending pm_id: nothing, one instance,
\* the cluster, two apps, an app next to the monitor.
RawLists ==
    {<<>>}
    \cup {<<p>> : p \in Loaded \cup Plain(0)}
    \cup {<<p, q>> : p \in Plain(0), q \in Plain(1) \cup Excluded}
    \cup {<<p, q>> : p \in {r \in Plain(0) : r.status = "stopped"}, q \in Plain(2)}

\* What `await exec('pm2 jlist')` gives: a rejection (exec or JSON.parse
\* throws), an empty stdout, or a JSON list.
Results(lists) ==
    {[kind |-> "error", list |-> <<>>], [kind |-> "empty", list |-> <<>>]}
    \cup {[kind |-> "json", list |-> l] : l \in lists}

ExecResults == Results(RawLists)

\* parseFloat((bytes / 1024 / 1024).toFixed(2)) || 0, in hundredths of a MB
MemoryMB(bytes) ==
    LET whole == bytes \div BytesPerMB
        rest  == bytes % BytesPerMB
    IN  whole * 100 + (rest * 100 + BytesPerMB \div 2) \div BytesPerMB

ToRecord(p) ==
    [pm_id |-> p.pm_id, name |-> p.name, status |-> p.status,
     restarts |-> p.restart_time, cpu |-> p.cpu, memory |-> MemoryMB(p.memory)]

\* A filter that lets every element through.
IncludesEveryApp(p) == TRUE

\* Line 162.
IsIncluded(p) == p.name \notin EXCLUDED_APPS

MapRecords(s) == [i \in 1..Len(s) |-> ToRecord(s[i])]

\* getPm2Processes() on a stdout that did not throw
GetPm2Processes(res) ==
    IF res.kind = "empty" THEN <<>>
    ELSE MapRecords(SelectSeq(res.list, IsIncluded))

-----------------------------------------------------------------------------
(* sendSlackNotification *)

SubjectMonitor == "PM2 Monitor"

TitleRestartDetected == "Process Restart Detected"
TitleRestartSuccessful == "Restart Successful"
TitleRestartFailed == "Restart Failed"
TitleStatusAlert == "Process Status Alert"
TitleHighCpu == "High CPU Usage"
TitleHighMemory == "High Memory Usage"
TitleScriptError == "Monitoring Script Error"

\* `Status Polling Error for '${appName}'`
TitlePollingError(appName) ==
    CASE appName = "api" -> "Status Polling Error for 'api'"
      [] appName = "worker" -> "Status Polling Error for 'worker'"
      [] OTHER -> "Status Polling Error for 'pm2-monitor'"

\* A message body: the template and the values interpolated into it.
Message(text, nums, strs) == [text |-> text, nums |-> nums, strs |-> strs]

\* One invocation sendSlackNotification(appName, title, message, color);
\* posted tells whether it went on to axios.post.
Call(appName, title, message, color) ==
    [appName |-> appName, title |-> title, message |-> message, color |-> color,
     posted |-> FALSE]

\* const key = `${appName}::${title}`
Key(appName, title) == <<appName, title>>

\* The guard of line 179.
IsThrottled(cache, key, t) ==
    /\ key \in DOMAIN cache
    /\ t - cache[key] < THROTTLE_DURATION_MS

\* The synchronous part of sendSlackNotification, up to `await axios.post`.
SendSlackNotification(cache, t, c) ==
    [c EXCEPT !.posted = ~IsThrottled(cache, Key(c.appName, c.title), t)]

\* The calls a handler makes before it yields.  None of them is awaited, so
\* every one of them reads the cache as the handler found it.
SendAll(cache, t, cs) == [i \in 1..Len(cs) |-> SendSlackNotification(cache, t, cs[i])]

\* A pending axios.post remembers its key and the `now` of its call.
Post(c, t) == [key |-> Key(c.appName, c.title), now |-> t]

RECURSIVE PostsOf(_, _)
PostsOf(log, t) ==
    IF log = <<>> THEN EmptyBag
    ELSE (IF Head(log).posted THEN SetToBag({Post(Head(log), t)}) ELSE EmptyBag)
         (+) PostsOf(Tail(log), t)

\* notificationThrottleCache.set(key, now), after the post resolved
CacheSet(cache, key, t) ==
    [k \in DOMAIN cache \cup {key} |-> IF k = key THEN t ELSE cache[k]]

\* A timestamp recorded whether or not the post went through.
CacheSetAnyway(cache, post) == CacheSet(cache, post.key, post.now)

\* The catch of line 188 leaves the cache as it is.
OnPostRejected(cache, post) == cache

\* A rejection that nothing catches ends the process.
PcUncaughtRejection(p) == "crashed"

\* The catch of line 188: the rejection is logged and goes no further, the
\* engine stays where it is.
PcAfterPostRejected(p) == p

-----------------------------------------------------------------------------
(* detectAndHandleRestarts *)

RECURSIVE SumRestarts(_, _)
SumRestarts(ps, name) ==
    IF ps = <<>> THEN 0
    ELSE (IF Head(ps).name = name THEN Head(ps).restarts ELSE 0)
         + SumRestarts(Tail(ps), name)

NameSet(ps) == {ps[i].name : i \in 1..Len(ps)}

\* currentRestartsByApp
CurrentRestartsByApp(ps) == [n \in NameSet(ps) |-> SumRestarts(ps, n)]

\* The keys of currentRestartsByApp in insertion order.
RECURSIVE NamesInOrder(_, _)
NamesInOrder(ps, seen) ==
    IF ps = <<>> THEN <<>>
    ELSE IF Head(ps).name \in seen THEN NamesInOrder(Tail(ps), seen)
    ELSE <<Head(ps).name>> \o NamesInOrder(Tail(ps), seen \cup {Head(ps).name})

\* The test of line 78.
IsRestart(history, appName, totalRestarts) ==
    /\ appName \in DOMAIN history
    /\ totalRestarts > history[appName]

RestartedApps(history, ps) ==
    {n \in NameSet(ps) : IsRestart(history, n, CurrentRestartsByApp(ps)[n])}

\* A history that only ever grows: a lower total is not stored.
RecordRestartsKeepMax(history, ps) ==
    [n \in DOMAIN history \cup NameSet(ps) |->
        IF n \in NameSet(ps) /\ (n \notin DOMAIN history
                                  \/ CurrentRestartsByApp(ps)[n] > history[n])
        THEN CurrentRestartsByApp(ps)[n] ELSE history[n]]

\* appRestartHistory.set(appName, totalRestarts), for every aggregated name
RecordRestarts(history, ps) ==
    [n \in DOMAIN history \cup NameSet(ps) |->
        IF n \in NameSet(ps) THEN CurrentRestartsByApp(ps)[n] ELSE history[n]]

\* RECHECK_TIMEOUT_SEC, with RECHECK_INTERVAL_MS / 1000 = 5
RECHECK_TIMEOUT_SEC == 5 * RECHECK_MAX_ATTEMPTS

RestartCall(appName) ==
    Call(appName, TitleRestartDetected,
         Message("A restart was detected", <<RECHECK_TIMEOUT_SEC>>, <<appName>>), "warning")

\* The names line 78 accepts, in the order the loop of line 76 meets them.
RestartedInOrder(history, ps) ==
    SelectSeq(NamesInOrder(ps, {}), LAMBDA n : n \in RestartedApps(history, ps))

\* A notifier that is not cluster-aware: one call per restarted instance.
RestartCallsPerInstance(history, ps) ==
    LET inst == SelectSeq(ps, LAMBDA p : p.name \in RestartedApps(history, ps))
    IN  [i \in 1..Len(inst) |-> RestartCall(inst[i].name)]

RestartCalls(history, ps) ==
    LET ns == RestartedInOrder(history, ps)
    IN  [i \in 1..Len(ns) |-> RestartCall(ns[i])]

\* startPollingAppStatus(appName): attempts = 0 and a live interval
\* A closure whose counter has already counted the detection.
NewPollCountingDetection(appName) ==
    [appName |-> appName, attempts |-> 1, active |-> TRUE, pending |-> 0, ended |-> ""]

\* (`ended` remembers the first outcome that cleared the interval.)
NewPoll(appName) ==
    [appName |-> appName, attempts |-> 0, active |-> TRUE, pending |-> 0, ended |-> ""]

NewPolls(history, ps) ==
    LET ns == RestartedInOrder(history, ps)
    IN  [i \in 1..Len(ns) |-> NewPoll(ns[i])]

-----------------------------------------------------------------------------
(* checkStableProcesses *)

StatusAlertCall(p) ==
    Call(p.name, TitleStatusAlert,
         Message("Instance has a status of", <<p.pm_id>>, <<p.status>>), "danger")

HighCpuCall(p) ==
    Call(p.name, TitleHighCpu, Message("Instance is using CPU", <<p.pm_id, p.cpu>>, <<>>), "warning")

HighMemoryCall(p) ==
    Call(p.name, TitleHighMemory,
         Message("Instance is using memory", <<p.pm_id, p.memory>>, <<>>), "warning")

\* The ceiling itself counted as too high.
CpuAtLeastThreshold(p) == p.cpu >= THRESHOLDS_CPU

CpuTooHigh(p) == p.cpu > THRESHOLDS_CPU

\* memory is in hundredths of a MB
MemoryTooHigh(p) == p.memory > THRESHOLDS_MEMORY * 100

\* Lines 139-148 for one process.
CheckProcess(p) ==
    IF p.status # "online" THEN <<StatusAlertCall(p)>>
    ELSE (IF CpuTooHigh(p) THEN <<HighCpuCall(p)>> ELSE <<>>)
         \o (IF MemoryTooHigh(p) THEN <<HighMemoryCall(p)>> ELSE <<>>)

\* restartedApps.has(proc.pm_id): a pm_id is never one of the names.
IsSkippedById(p, restartedApps) == FALSE

\* Line 134.
IsSkipped(p, restartedApps) == p.name \in restartedApps

\* The processes the loop of line 133 goes on to evaluate.
StableProcesses(ps, restartedApps) ==
    SelectSeq(ps, LAMBDA p : ~IsSkipped(p, restartedApps))

RECURSIVE ConcatCalls(_)
ConcatCalls(ps) ==
    IF ps = <<>> THEN <<>> ELSE CheckProcess(Head(ps)) \o ConcatCalls(Tail(ps))

CheckStableCalls(ps, restartedApps) == ConcatCalls(StableProcesses(ps, restartedApps))

\* The `[Check] name(pm_id)` lines of the console, as pm_ids.
CheckedIds(ps, restartedApps) ==
    LET st == StableProcesses(ps, restartedApps)
    IN  [i \in 1..Len(st) |-> st[i].pm_id]

-----------------------------------------------------------------------------
(* startPollingAppStatus: the body of the interval callback after its fetch *)

InstancesOf(ps, appName) == SelectSeq(ps, LAMBDA p : p.name = appName)

\* Line 101.
IsAllOnline(appInstances) ==
    /\ Len(appInstances) > 0
    /\ \A i \in 1..Len(appInstances) : appInstances[i].status = "online"

\* Line 112, read when the continuation runs.
BudgetSpent(attempts) == attempts >= RECHECK_MAX_ATTEMPTS

\* A message that carries the readings of the last instance.
SuccessCallLastInstance(appName, appInstances) ==
    Call(appName, TitleRestartSuccessful,
         Message("successfully restarted and is now 'online'",
                 <<appInstances[Len(appInstances)].cpu,
                   appInstances[Len(appInstances)].memory>>, <<appName>>), "good")

\* Lines 104-108: const { cpu, memory } = appInstances[0].
SuccessCall(appName, appInstances) ==
    Call(appName, TitleRestartSuccessful,
         Message("successfully restarted and is now 'online'",
                 <<appInstances[1].cpu, appInstances[1].memory>>, <<appName>>), "good")

FailedCall(appName, appInstances) ==
    Call(appName, TitleRestartFailed,
         IF Len(appInstances) > 0
         THEN Message("failed to become 'online'. Current status:",
                      [i \in 1..Len(appInstances) |-> appInstances[i].pm_id],
                      [i \in 1..Len(appInstances) |-> appInstances[i].status])
         ELSE Message("failed to become 'online'. Could not find process.", <<>>, <<>>),
         "danger")

PollingErrorCall(appName) ==
    Call(appName, TitlePollingError(appName), Message("error.message", <<>>, <<>>), "danger")

\* The outcome of one continuation: "online", "failed", "error" or "again".
PollOutcome(poll, res) ==
    IF res.kind = "error" THEN "error"
    ELSE IF IsAllOnline(InstancesOf(GetPm2Processes(res), poll.appName)) THEN "online"
    ELSE IF BudgetSpent(poll.attempts) THEN "failed"
    ELSE "again"

PollCalls(poll, res) ==
    LET out == PollOutcome(poll, res)
        inst == InstancesOf(GetPm2Processes(res), poll.appName)
    IN  CASE out = "error" -> <<PollingErrorCall(poll.appName)>>
          [] out = "online" -> <<SuccessCall(poll.appName, inst)>>
          [] out = "failed" -> <<FailedCall(poll.appName, inst)>>
          [] OTHER -> <<>>

-----------------------------------------------------------------------------
(* logStatusToFile *)

\* One element of the history.  Of every process record the entry keeps the
\* name: the engine writes the records out and never reads a field of them
\* back.
Logged(ps) == [i \in 1..Len(ps) |-> ps[i].name]

HistoryEntry(t, logged) == [timestamp |-> t, processes |-> logged]

\* history.unshift(entry)
Unshift(history, entry) == <<entry>> \o history

\* history.slice(-MAX_HISTORY): the cap applied from the other end.
SliceFromEnd(history) ==
    SubSeq(history,
           IF Len(history) < MAX_HISTORY THEN 1 ELSE Len(history) - MAX_HISTORY + 1,
           Len(history))

\* history.slice(0, MAX_HISTORY)
Slice(history) ==
    SubSeq(history, 1, IF Len(history) < MAX_HISTORY THEN Len(history) ELSE MAX_HISTORY)

-----------------------------------------------------------------------------
(* The state machine *)

RemoveAt(s, i) == SubSeq(s, 1, i - 1) \o SubSeq(s, i + 1, Len(s))

NoPost == [key |-> <<"", "">>, now |-> 0]

\* The record of a step: which handler ran, on what, and what it did.
\* `filtered` counts the elements of the raw list that line 162 removed;
\* `active` and `ended` tell whether the interval of the poll was still set
\* when its continuation ran, and how the poll had ended if it had.
Log(op) ==
    [op |-> op, appName |-> "", processes |-> <<>>, previous |-> <<>>,
     restartedApps |-> {}, calls |-> <<>>, checked |-> <<>>, attempts |-> 0,
     post |-> NoPost, ok |-> TRUE, filtered |-> 0, active |-> TRUE, ended |-> ""]

\* No stdout yet: the child process of exec has not printed its list.
NoStdout == [kind |-> "none", list |-> <<>>]

NewCycle == [pc |-> "fetch", processes |-> <<>>, history |-> <<>>, stdout |-> NoStdout]

\* No handler is running: the event loop is free to start one.
Idle == last.op = "none"

Init ==
    /\ pc = "start"
    /\ webhookUrlValid \in BOOLEAN
    /\ appRestartHistory = <<>>
    /\ notificationThrottleCache = <<>>
    /\ now = 0
    /\ cycles = <<>>
    /\ polls = <<>>
    /\ inFlight = EmptyBag
    /\ file = <<>>
    /\ started = 0
    /\ last = Log("none")
    /\ daemonRestartTime = 0

\* An engine that goes on without a usable webhook.
PcIgnoringCredential(valid) == "seeding"

\* Lines 222-225: process.exit(1) unless the webhook URL is set and is a
\* Slack webhook.
PcAfterCredentialCheck(valid) == IF valid THEN "seeding" ELSE "exited"

\* initialize(), lines 219-235: the credential check, then the seeding fetch.
CheckWebhook ==
    /\ Idle
    /\ pc = "start"
    /\ pc' = PcAfterCredentialCheck(webhookUrlValid)
    /\ last' = Log("none")
    /\ UNCHANGED <<daemonRestartTime, webhookUrlValid, appRestartHistory,
                   notificationThrottleCache, now, cycles, polls, inFlight, file,
                   started>>

\* Seeding that forgets the count already recorded for the name: the last
\* instance of a cluster overwrites the others.
RECURSIVE SeedHistoryLastWins(_, _)
SeedHistoryLastWins(history, ps) ==
    IF ps = <<>> THEN history
    ELSE LET proc == Head(ps)
         IN  SeedHistoryLastWins([n \in DOMAIN history \cup {proc.name} |->
                                     IF n = proc.name THEN proc.restarts ELSE history[n]],
                                 Tail(ps))

\* The loop of lines 236-239.
RECURSIVE SeedHistory(_, _)
SeedHistory(history, ps) ==
    IF ps = <<>> THEN history
    ELSE LET proc == Head(ps)
             count == IF proc.name \in DOMAIN history THEN history[proc.name] ELSE 0
         IN  SeedHistory([n \in DOMAIN history \cup {proc.name} |->
                             IF n = proc.name THEN count + proc.restarts ELSE history[n]],
                         Tail(ps))

\* initialize(), lines 235-245, once the seeding fetch settled.  A rejection is
\* caught nowhere: depending on the Node version the process dies of it or
\* only warns, and in both cases nothing is scheduled.
Seed(res) ==
    /\ Idle
    /\ pc = "seeding"
    /\ IF res.kind = "error"
       THEN /\ pc' \in {"crashed", "unscheduled"}
            /\ last' = [Log("seed") EXCEPT !.ok = FALSE]
            /\ UNCHANGED <<appRestartHistory, cycles, started>>
       ELSE /\ pc' = "running"
            /\ appRestartHistory' = SeedHistory(appRestartHistory, GetPm2Processes(res))
            /\ cycles' = Append(cycles, NewCycle)
            /\ started' = started + 1
            /\ last' = [Log("seed") EXCEPT
                           !.processes = GetPm2Processes(res),
                           !.filtered = Len(res.list) - Len(GetPm2Processes(res))]
    /\ UNCHANGED <<daemonRestartTime, webhookUrlValid, notificationThrottleCache, now,
                   polls, inFlight, file>>

\* node-cron fires monitorProcesses.
CronTick ==
    /\ Idle
    /\ pc = "running"
    /\ started < MaxCycles
    /\ cycles' = Append(cycles, NewCycle)
    /\ started' = started + 1
    /\ last' = Log("none")
    /\ UNCHANGED <<daemonRestartTime, pc, webhookUrlValid, appRestartHistory,
                   notificationThrottleCache, now, polls, inFlight, file>>

\* A catch that only logs to the console.
ScriptErrorOnlyLogged == <<>>

\* The catch of monitorProcesses, line 60.
ScriptErrorCalls ==
    <<Call(SubjectMonitor, TitleScriptError, Message("error.message", <<>>, <<>>), "danger")>>

\* monitorProcesses(), lines 52-56 up to the readFile of logStatusToFile, or
\* the catch of lines 58-61 when the fetch threw.
CycleFetched(i, res) ==
    /\ Idle
    /\ i \in 1..Len(cycles)
    /\ cycles[i].pc = "fetch"
    /\ IF res.kind = "error"
       THEN LET log == SendAll(notificationThrottleCache, now, ScriptErrorCalls)
            IN  /\ cycles' = RemoveAt(cycles, i)
                /\ inFlight' = inFlight (+) PostsOf(log, now)
                /\ last' = [Log("monitorProcesses") EXCEPT !.ok = FALSE, !.calls = log]
                /\ UNCHANGED <<appRestartHistory, polls>>
       ELSE LET ps == GetPm2Processes(res)
                restartedApps == RestartedApps(appRestartHistory, ps)
                log == SendAll(notificationThrottleCache, now,
                               RestartCalls(appRestartHistory, ps)
                               \o CheckStableCalls(ps, restartedApps))
            IN  /\ Len(polls) + Len(NewPolls(appRestartHistory, ps)) <= MaxPolls
                /\ appRestartHistory' = RecordRestarts(appRestartHistory, ps)
                /\ polls' = polls \o NewPolls(appRestartHistory, ps)
                /\ cycles' = [cycles EXCEPT ![i] = [@ EXCEPT !.pc = "read",
                                                              !.processes = Logged(ps)]]
                /\ inFlight' = inFlight (+) PostsOf(log, now)
                /\ last' = [Log("monitorProcesses") EXCEPT
                               !.processes = ps, !.previous = appRestartHistory,
                               !.restartedApps = restartedApps,
                               !.calls = log, !.checked = CheckedIds(ps, restartedApps),
                               !.filtered = Len(res.list) - Len(ps)]
    /\ UNCHANGED <<daemonRestartTime, pc, webhookUrlValid, notificationThrottleCache,
                   now, file, started>>

\* logStatusToFile(), lines 272-280: readFile settled (a missing or
\* unreadable file leaves history = []), the entry is put in front, the
\* writeFile is issued.
LogRead(i, readOk) ==
    /\ Idle
    /\ i \in 1..Len(cycles)
    /\ cycles[i].pc = "read"
    /\ LET history == IF readOk THEN file ELSE <<>>
           prunedHistory == Slice(Unshift(history, HistoryEntry(now, cycles[i].processes)))
       IN  /\ cycles' = [cycles EXCEPT ![i] = [pc |-> "write", processes |-> <<>>,
                                                history |-> prunedHistory,
                                                stdout |-> NoStdout]]
           /\ last' = [Log("logStatusToFile") EXCEPT !.ok = readOk]
    /\ UNCHANGED <<daemonRestartTime, pc, webhookUrlValid, appRestartHistory,
                   notificationThrottleCache, now, polls, inFlight, file, started>>

\* logStatusToFile(), line 281: writeFile settled.  Its rejection reaches the
\* catch of monitorProcesses.
LogWritten(i, writeOk) ==
    /\ Idle
    /\ i \in 1..Len(cycles)
    /\ cycles[i].pc = "write"
    /\ cycles' = RemoveAt(cycles, i)
    /\ IF writeOk
       THEN /\ file' = cycles[i].history
            /\ last' = Log("writeFile")
            /\ UNCHANGED inFlight
       ELSE LET log == SendAll(notificationThrottleCache, now, ScriptErrorCalls)
            IN  /\ inFlight' = inFlight (+) PostsOf(log, now)
                /\ last' = [Log("writeFile") EXCEPT !.ok = FALSE, !.calls = log]
                /\ UNCHANGED file
    /\ UNCHANGED <<daemonRestartTime, pc, webhookUrlValid, appRestartHistory,
                   notificationThrottleCache, now, polls, started>>

\* The interval of line 94 fires: attempts++ and a fetch is issued.  The
\* timer does not wait for the fetches of earlier ticks.
PollTick(i) ==
    /\ Idle
    /\ i \in 1..Len(polls)
    /\ polls[i].active
    /\ polls[i].pending < MaxPending
    /\ polls' = [polls EXCEPT ![i] = [@ EXCEPT !.attempts = @ + 1, !.pending = @ + 1]]
    /\ last' = Log("none")
    /\ UNCHANGED <<daemonRestartTime, pc, webhookUrlValid, appRestartHistory,
                   notificationThrottleCache, now, cycles, inFlight, file, started>>

\* Lines 99-125: the fetch of one tick settled.  A closure whose interval is
\* cleared and that has no fetch left is gone.
PollFetched(i, res) ==
    /\ Idle
    /\ i \in 1..Len(polls)
    /\ polls[i].pending > 0
    /\ LET poll == polls[i]
           out == PollOutcome(poll, res)
           log == SendAll(notificationThrottleCache, now, PollCalls(poll, res))
           after == [poll EXCEPT !.pending = @ - 1,
                                 !.active = IF out = "again" THEN @ ELSE FALSE,
                                 !.ended = IF @ = "" /\ out # "again" THEN out ELSE @]
       IN  /\ polls' = IF after.active \/ after.pending > 0
                       THEN [polls EXCEPT ![i] = after]
                       ELSE RemoveAt(polls, i)
           /\ inFlight' = inFlight (+) PostsOf(log, now)
           /\ last' = [Log("poll") EXCEPT
                          !.appName = poll.appName, !.attempts = poll.attempts,
                          !.ok = (res.kind # "error"),
                          !.processes = IF res.kind = "error" THEN <<>>
                                        ELSE GetPm2Processes(res),
                          !.filtered = IF res.kind = "error" THEN 0
                                       ELSE Len(res.list) - Len(GetPm2Processes(res)),
                          !.active = poll.active, !.ended = poll.ended,
                          !.calls = log]
    /\ UNCHANGED <<daemonRestartTime, pc, webhookUrlValid, appRestartHistory,
                   notificationThrottleCache, now, cycles, file, started>>

\* Lines 186-190: an axios.post settled.
PostSettled(post, delivered) ==
    /\ Idle
    /\ BagIn(post, inFlight)
    /\ inFlight' = inFlight (-) SetToBag({post})
    /\ notificationThrottleCache' =
          IF delivered THEN CacheSet(notificationThrottleCache, post.key, post.now)
          ELSE OnPostRejected(notificationThrottleCache, post)
    /\ pc' = IF delivered THEN pc ELSE PcAfterPostRejected(pc)
    /\ last' = [Log("post") EXCEPT !.post = post, !.ok = delivered]
    /\ UNCHANGED <<daemonRestartTime, webhookUrlValid, appRestartHistory, now, cycles,
                   polls, file, started>>

\* Time passes.
AdvanceClock ==
    /\ Idle
    /\ \E t \in Instants : t > now /\ now' = t
    /\ last' = Log("none")
    /\ UNCHANGED <<daemonRestartTime, pc, webhookUrlValid, appRestartHistory,
                   notificationThrottleCache, cycles, polls, inFlight, file, started>>

\* The handler that ran returns to the event loop.
Return ==
    /\ ~Idle
    /\ last' = Log("none")
    /\ UNCHANGED <<daemonRestartTime, pc, webhookUrlValid, appRestartHistory,
                   notificationThrottleCache, now, cycles, polls, inFlight, file,
                   started>>

\* The same cycles with their snapshots read from a daemon that holds the
\* restart count of instance 0 of "api".

\* What `pm2 jlist` prints when it reads the daemon now: instance 0 of
\* "api", online, with the restart count the daemon holds.
DaemonStdout ==
    [kind |-> "json", list |-> <<RawProc(0, "online", daemonRestartTime, 0, 0)>>]

\* pm2 restarts instance 0 of "api": its restart_time goes up by one.
Restarted ==
    /\ Idle
    /\ daemonRestartTime < MaxRestartTime
    /\ daemonRestartTime' = daemonRestartTime + 1
    /\ last' = Log("none")
    /\ UNCHANGED <<pc, webhookUrlValid, appRestartHistory, notificationThrottleCache, now,
                   cycles, polls, inFlight, file, started>>

\* The child process that exec started for cycle i (line 158) reads the
\* daemon and prints its list; the promise of exec settles later, when the
\* child has exited and the event loop gets to it.
JlistRan(i) ==
    /\ Idle
    /\ i \in 1..Len(cycles)
    /\ cycles[i].pc = "fetch"
    /\ cycles[i].stdout = NoStdout
    /\ cycles' = [cycles EXCEPT ![i] = [@ EXCEPT !.stdout = DaemonStdout]]
    /\ last' = Log("none")
    /\ UNCHANGED <<daemonRestartTime, pc, webhookUrlValid, appRestartHistory,
                   notificationThrottleCache, now, polls, inFlight, file, started>>

\* The exec of cycle i settles with what its child printed.
CycleReturned(i) ==
    /\ i \in 1..Len(cycles)
    /\ cycles[i].stdout # NoStdout
    /\ CycleFetched(i, cycles[i].stdout)

\* The seeding fetch reads the daemon and settles.
SeedFromDaemon == Seed(DaemonStdout)

Next ==
    \/ Return
    \/ CheckWebhook
    \/ \E res \in ExecResults : Seed(res)
    \/ CronTick
    \/ \E i \in 1..MaxCycles, res \in ExecResults : CycleFetched(i, res)
    \/ \E i \in 1..MaxCycles, readOk \in BOOLEAN : LogRead(i, readOk)
    \/ \E i \in 1..MaxCycles, writeOk \in BOOLEAN : LogWritten(i, writeOk)
    \/ \E i \in 1..MaxPolls : PollTick(i)
    \/ \E i \in 1..MaxPolls, res \in ExecResults : PollFetched(i, res)
    \/ \E post \in BagToSet(inFlight), delivered \in BOOLEAN : PostSettled(post, delivered)
    \/ AdvanceClock
    \/ Restarted
    \/ SeedFromDaemon
    \/ \E i \in 1..MaxCycles : JlistRan(i)
    \/ \E i \in 1..MaxCycles : CycleReturned(i)

Spec == Init /\ [][Next]_vars

-----------------------------------------------------------------------------
(* Restrictions of Spec, one per part of the engine.  Each keeps the actions *)
(* of that part and leaves the other timers and I/O completions pending.     *)

\* Startup and the monitoring cycles up to the history log: no poll timer
\* fires and no axios.post settles meanwhile.
NextDetect ==
    \/ Return
    \/ CheckWebhook
    \/ \E res \in ExecResults : Seed(res)
    \/ CronTick
    \/ \E i \in 1..MaxCycles, res \in ExecResults : CycleFetched(i, res)

SpecDetect == Init /\ [][NextDetect]_vars

\* The lists of the notifier's runs: instance 0 of "api" alone, or the
\* cluster with both instances stopped.
AlertLists ==
    {<<p>> : p \in Plain(0)}
    \cup {<<p, q>> : p \in {r \in Plain(0) : r.status = "stopped"},
                     q \in {r \in Plain(1) : r.status = "stopped" /\ r.restart_time = 0}}

AlertResults == Results(AlertLists)

\* Startup and the cycles' calls, the settling of their posts, and the clock.
NextNotify ==
    \/ Return
    \/ CheckWebhook
    \/ \E res \in AlertResults : Seed(res)
    \/ CronTick
    \/ \E i \in 1..MaxCycles, res \in AlertResults : CycleFetched(i, res)
    \/ \E post \in BagToSet(inFlight), delivered \in BOOLEAN : PostSettled(post, delivered)
    \/ AdvanceClock

SpecNotify == Init /\ [][NextNotify]_vars

\* Startup and whole cycles, history log included, with the settling of
\* their posts, at one instant.
NextDeliver ==
    \/ Return
    \/ CheckWebhook
    \/ \E res \in AlertResults : Seed(res)
    \/ CronTick
    \/ \E i \in 1..MaxCycles, res \in AlertResults : CycleFetched(i, res)
    \/ \E i \in 1..MaxCycles, readOk \in BOOLEAN : LogRead(i, readOk)
    \/ \E i \in 1..MaxCycles, writeOk \in BOOLEAN : LogWritten(i, writeOk)
    \/ \E post \in BagToSet(inFlight), delivered \in BOOLEAN : PostSettled(post, delivered)

SpecDeliver == Init /\ [][NextDeliver]_vars

\* The lists of the poller's runs: instance 0 of "api" alone.
PollLists == {<<p>> : p \in Plain(0)}

PollResults == Results(PollLists)

\* Startup, the eager cycle, and the interval callbacks of the polls it
\* started.
NextPoll ==
    \/ Return
    \/ CheckWebhook
    \/ \E res \in PollResults : Seed(res)
    \/ \E i \in 1..MaxCycles, res \in PollResults : CycleFetched(i, res)
    \/ \E i \in 1..MaxPolls : PollTick(i)
    \/ \E i \in 1..MaxPolls, res \in PollResults : PollFetched(i, res)

SpecPoll == Init /\ [][NextPoll]_vars

\* The status file as earlier runs of the engine left it: n entries, most
\* recent first, all older than this run.
OldHistory(n) == [i \in 1..n |-> HistoryEntry(0 - i, <<"api">>)]

\* The engine starts next to a file that is missing or empty, one short of
\* the cap, or full.
InitHistory ==
    /\ pc = "start"
    /\ webhookUrlValid = TRUE
    /\ appRestartHistory = <<>>
    /\ notificationThrottleCache = <<>>
    /\ now = 0
    /\ cycles = <<>>
    /\ polls = <<>>
    /\ inFlight = EmptyBag
    /\ file \in {OldHistory(n) : n \in {0, MAX_HISTORY - 1, MAX_HISTORY}}
    /\ started = 0
    /\ last = Log("none")
    /\ daemonRestartTime = 0

HistoryLists == {<<RawProc(0, "online", 0, 0, 0)>>}

\* The fetches of these runs succeed.
HistoryResults == {[kind |-> "json", list |-> l] : l \in HistoryLists}

\* Startup and whole cycles, history log included, as time passes.
NextHistory ==
    \/ Return
    \/ CheckWebhook
    \/ \E res \in HistoryResults : Seed(res)
    \/ CronTick
    \/ \E i \in 1..MaxCycles, res \in HistoryResults : CycleFetched(i, res)
    \/ \E i \in 1..MaxCycles, readOk \in BOOLEAN : LogRead(i, readOk)
    \/ \E i \in 1..MaxCycles, writeOk \in BOOLEAN : LogWritten(i, writeOk)
    \/ AdvanceClock

SpecHistory == InitHistory /\ [][NextHistory]_vars

\* Raw lists that all hold the monitor itself, alone or after instance 0 of
\* "api".
ExcludeLists == {<<q>> : q \in Excluded} \cup {<<p, q>> : p \in Plain(0), q \in Excluded}

ExcludeResults == Results(ExcludeLists)

\* Startup, the eager cycle with its history log, and the poll it starts.
NextExclude ==
    \/ Return
    \/ CheckWebhook
    \/ \E res \in ExcludeResults : Seed(res)
    \/ \E i \in 1..MaxCycles, res \in ExcludeResults : CycleFetched(i, res)
    \/ \E i \in 1..MaxCycles, readOk \in BOOLEAN : LogRead(i, readOk)
    \/ \E i \in 1..MaxCycles, writeOk \in BOOLEAN : LogWritten(i, writeOk)
    \/ \E i \in 1..MaxPolls : PollTick(i)
    \/ \E i \in 1..MaxPolls, res \in ExcludeResults : PollFetched(i, res)

SpecExclude == Init /\ [][NextExclude]_vars

\* Lists that let "api" restart twice: instance 0 alone with no or one
\* restart, then the cluster with one restart on each instance.
TwoPollLists ==
    {<<RawProc(0, "online", r, 0, 0)>> : r \in {0, 1}}
    \cup {<<RawProc(0, "online", 1, 0, 0), RawProc(1, "online", 1, 0, 0)>>}

\* The fetches of the seeding and of the cycles of these runs succeed.
TwoPollResults == {[kind |-> "json", list |-> l] : l \in TwoPollLists}

\* The samples of the polls of these runs: instance 0 online or stopped.
SampleResults ==
    {[kind |-> "json", list |-> <<RawProc(0, st, 1, 0, 0)>>] : st \in {"online", "stopped"}}

\* Startup, the cycles up to the history log, and the polls they start.
NextPolls ==
    \/ Return
    \/ CheckWebhook
    \/ \E res \in TwoPollResults : Seed(res)
    \/ CronTick
    \/ \E i \in 1..MaxCycles, res \in TwoPollResults : CycleFetched(i, res)
    \/ \E i \in 1..MaxPolls : PollTick(i)
    \/ \E i \in 1..MaxPolls, res \in SampleResults : PollFetched(i, res)

SpecPolls == Init /\ [][NextPolls]_vars

\* Startup and whole cycles, with snapshots read from a daemon whose
\* restart count only goes up.
NextOverlap ==
    \/ Return
    \/ CheckWebhook
    \/ SeedFromDaemon
    \/ CronTick
    \/ Restarted
    \/ \E i \in 1..MaxCycles : JlistRan(i)
    \/ \E i \in 1..MaxCycles : CycleReturned(i)
    \/ \E i \in 1..MaxCycles, readOk \in BOOLEAN : LogRead(i, readOk)
    \/ \E i \in 1..MaxCycles, writeOk \in BOOLEAN : LogWritten(i, writeOk)

SpecOverlap == Init /\ [][NextOverlap]_vars

\* The samples of the polls of these runs: a fault, nothing, instance 0
\* stopped, instance 0 online under load, and the cluster online with
\* different readings on its two instances.
TraceSamples ==
    Results({<<RawProc(0, "stopped", 1, 0, 0)>>,
             <<RawProc(0, "online", 1, 85, 450 * BytesPerMB + 10486)>>,
             <<RawProc(0, "online", 1, 85, 450 * BytesPerMB + 10486),
               RawProc(1, "online", 0, 80, 450 * BytesPerMB)>>})

\* The one restart of these runs.
RestartedOnce == daemonRestartTime = 0 /\ Restarted

\* Startup, the cycles up to the history log with snapshots read from the
\* daemon, and the poll that the one restart starts.
NextTrace ==
    \/ Return
    \/ CheckWebhook
    \/ SeedFromDaemon
    \/ CronTick
    \/ RestartedOnce
    \/ \E i \in 1..MaxCycles : JlistRan(i)
    \/ \E i \in 1..MaxCycles : CycleReturned(i)
    \/ \E i \in 1..MaxPolls : PollTick(i)
    \/ \E i \in 1..MaxPolls, res \in TraceSamples : PollFetched(i, res)

SpecTrace == Init /\ [][NextTrace]_vars

-----------------------------------------------------------------------------
(* Vocabulary of the properties *)

\* The handler that just ran was a monitoring cycle whose fetch succeeded.
CycleRan(l) == l.op = "monitorProcesses" /\ l.ok

\* The handler that just ran was a monitoring cycle whose fetch threw.
CycleFailed(l) == l.op = "monitorProcesses" /\ ~l.ok

RECURSIVE SumUpTo(_, _, _)
SumUpTo(ps, name, k) ==
    IF k = 0 THEN 0
    ELSE (IF ps[k].name = name THEN ps[k].restarts ELSE 0) + SumUpTo(ps, name, k - 1)

\* The aggregated restart count of a name in a snapshot.
Aggregated(ps, name) == SumUpTo(ps, name, Len(ps))

\* The calls of a log made for a subject under a title.
CallsFor(log, appName, title) ==
    {k \in 1..Len(log) : log[k].appName = appName /\ log[k].title = title}

\* The calls of a log made about one instance under a title.
CallsAbout(log, p, title) ==
    {k \in CallsFor(log, p.name, title) : log[k].message.nums[1] = p.pm_id}

EvaluationTitles == {TitleStatusAlert, TitleHighCpu, TitleHighMemory}

IdsOf(ps, name) == {ps[i].pm_id : i \in {j \in 1..Len(ps) : ps[j].name = name}}

PollsOf(ps, name) == {i \in 1..Len(ps) : ps[i].appName = name}

-----------------------------------------------------------------------------
(* C1 *)

\* C1: in every monitoring cycle, a name whose aggregated restart count in
\* the snapshot is strictly greater than the total stored before the cycle
\* is in the restarted set, and sendSlackNotification is called exactly once
\* for it with 'Process Restart Detected', however many of its instances
\* restarted.
C1_RestartNotifiedOnce ==
    [][CycleRan(last') =>
         \A n \in NameSet(last'.processes) :
            (n \in DOMAIN appRestartHistory
             /\ Aggregated(last'.processes, n) > appRestartHistory[n])
            => /\ n \in last'.restartedApps
               /\ Cardinality(CallsFor(last'.calls, n, TitleRestartDetected)) = 1]_vars

\* Both instances of the cluster carry restarts and the cluster was detected.
C1_Witness ==
    /\ CycleRan(last)
    /\ "api" \in last.restartedApps
    /\ Len(last.processes) = 2
    /\ \A i \in 1..2 : last.processes[i].name = "api" /\ last.processes[i].restarts > 0
    /\ "api" \in DOMAIN last.previous
    /\ last.previous["api"] = 0

-----------------------------------------------------------------------------
(* C4 *)

\* C4: in every monitoring cycle each name of the snapshot is either in the
\* restarted set, and then none of its instances is evaluated and no status
\* or resource alert is made for it, or not in the set, and then every one
\* of its instances is evaluated; the restart calls come before every call
\* of the evaluation, and the polls of the restarted names are started.
C4_RestartedOrEvaluated ==
    CycleRan(last) =>
        /\ \A n \in NameSet(last.processes) :
              LET checked == {last.checked[k] : k \in 1..Len(last.checked)}
                  alerts  == {k \in 1..Len(last.calls) :
                                 /\ last.calls[k].appName = n
                                 /\ last.calls[k].title \in EvaluationTitles}
              IN  \/ /\ n \in last.restartedApps
                     /\ IdsOf(last.processes, n) \cap checked = {}
                     /\ alerts = {}
                     /\ PollsOf(polls, n) # {}
                  \/ /\ n \notin last.restartedApps
                     /\ IdsOf(last.processes, n) \subseteq checked
        /\ \A i, j \in 1..Len(last.calls) :
              (last.calls[i].title = TitleRestartDetected
               /\ last.calls[j].title \in EvaluationTitles) => i < j

\* "api" restarted while stopped, and only "worker" was evaluated.
C4_Witness ==
    /\ CycleRan(last)
    /\ last.restartedApps = {"api"}
    /\ Len(last.processes) = 2
    /\ last.processes[1].status = "stopped"
    /\ last.processes[2].name = "worker"
    /\ last.processes[2].status = "stopped"
    /\ last.checked = <<2>>

-----------------------------------------------------------------------------
(* C5 *)

-----------------------------------------------------------------------------
(* C6 *)

\* C6: for every process record whose name is not in the restarted set, the
\* cycle calls sendSlackNotification exactly once with 'Process Status
\* Alert' and with no resource warning when the status is not 'online';
\* when it is 'online', with 'High CPU Usage' iff cpu > THRESHOLDS.CPU and
\* with 'High Memory Usage' iff memory > THRESHOLDS.MEMORY.
C6_ThresholdAlerts ==
    CycleRan(last) =>
        \A i \in 1..Len(last.processes) :
            LET p == last.processes[i]
                n(title) == Cardinality(CallsAbout(last.calls, p, title))
            IN  p.name \notin last.restartedApps =>
                    IF p.status # "online"
                    THEN n(TitleStatusAlert) = 1 /\ n(TitleHighCpu) = 0 /\ n(TitleHighMemory) = 0
                    ELSE /\ n(TitleStatusAlert) = 0
                         /\ n(TitleHighCpu) = (IF p.cpu > 80 THEN 1 ELSE 0)
                         /\ n(TitleHighMemory) = (IF p.memory > 450 * 100 THEN 1 ELSE 0)

\* One online instance above both ceilings got both warnings.
C6_Witness ==
    /\ CycleRan(last)
    /\ Len(last.processes) = 1
    /\ last.processes[1].cpu = 85
    /\ last.processes[1].memory = 45001
    /\ Len(last.calls) = 2
    /\ last.calls[1].title = TitleHighCpu
    /\ last.calls[2].title = TitleHighMemory

-----------------------------------------------------------------------------
(* C9 *)

\* C9: a cycle whose fetch throws leaves the restart history, the polls and
\* the history file as they were, evaluates nothing, ends without reaching
\* the history log, calls sendSlackNotification once, with 'Monitoring Script
\* Error', and leaves the other cycles and the schedule untouched.
C9_FailedFetchAbortsOnlyItsCycle ==
    [][CycleFailed(last') =>
         /\ appRestartHistory' = appRestartHistory
         /\ polls' = polls
         /\ file' = file
         /\ pc' = "running"
         /\ last'.checked = <<>>
         /\ \E i \in 1..Len(cycles) : cycles[i].pc = "fetch" /\ cycles' = RemoveAt(cycles, i)
         /\ Len(last'.calls) = 1
         /\ last'.calls[1].appName = SubjectMonitor
         /\ last'.calls[1].title = TitleScriptError]_vars

\* One of two cycles is gone, which only a failed fetch does here, and the
\* other one then detected a restart against the seeded count.
C9_Witness ==
    /\ CycleRan(last)
    /\ started = 2
    /\ Len(cycles) = 1
    /\ last.restartedApps = {"api"}
    /\ last.previous["api"] = 0

-----------------------------------------------------------------------------
(* C2 *)

\* C2: no poll takes more than RECHECK_MAX_ATTEMPTS samples: the counter of
\* a poll, which counts the fetches its interval issued, never passes the
\* budget.
C2_AtMostMaxAttemptsSamples ==
    \A i \in 1..Len(polls) : polls[i].attempts <= RECHECK_MAX_ATTEMPTS

-----------------------------------------------------------------------------
(* C3 *)

PostsWithKey(key) == {p \in BagToSet(inFlight) : p.key = key}

\* C3: two calls with the same (appName, title) key issued less than
\* THROTTLE_DURATION_MS apart make one delivery attempt between them: no
\* key has two posts issued within the window of each other, be they both
\* pending or one pending and one delivered.
C3_OneAttemptWithinWindow ==
    \A p \in BagToSet(inFlight) :
        /\ CopiesIn(p, inFlight) = 1
        /\ \A q \in PostsWithKey(p.key) :
              q # p => (IF q.now > p.now THEN q.now - p.now ELSE p.now - q.now)
                       >= THROTTLE_DURATION_MS
        /\ (p.key \in DOMAIN notificationThrottleCache
            /\ notificationThrottleCache[p.key] <= p.now)
           => p.now - notificationThrottleCache[p.key] >= THROTTLE_DURATION_MS

-----------------------------------------------------------------------------
(* C7 *)

\* C7: the cache changes only when a post is delivered, and then only at
\* the key of that post, to the time of its call; a rejected post leaves the
\* cache as it was; and a call whose key has no delivered entry within the
\* window goes on to axios.post, whatever deliveries failed before.
C7_CacheWrittenOnDelivery ==
    [][/\ notificationThrottleCache' # notificationThrottleCache =>
             /\ last'.op = "post" /\ last'.ok
             /\ DOMAIN notificationThrottleCache' =
                   DOMAIN notificationThrottleCache \cup {last'.post.key}
             /\ notificationThrottleCache'[last'.post.key] = last'.post.now
             /\ \A k \in DOMAIN notificationThrottleCache :
                   k # last'.post.key =>
                      notificationThrottleCache'[k] = notificationThrottleCache[k]
       /\ (last'.op = "post" /\ ~last'.ok) =>
             notificationThrottleCache' = notificationThrottleCache
       /\ \A k \in 1..Len(last'.calls) :
             LET key == <<last'.calls[k].appName, last'.calls[k].title>>
             IN  ~(/\ key \in DOMAIN notificationThrottleCache
                   /\ now - notificationThrottleCache[key] < THROTTLE_DURATION_MS)
                 => /\ last'.calls[k].posted
                    /\ BagIn([key |-> key, now |-> now], inFlight')]_vars

\* Both cycles failed their fetch at the same instant.  The post of the first
\* 'Monitoring Script Error' was rejected: it is no longer pending and left
\* no entry.  The call of the second went on to axios.post.
C7_Witness ==
    /\ CycleFailed(last)
    /\ started = 2
    /\ cycles = <<>>
    /\ now = 0
    /\ notificationThrottleCache = <<>>
    /\ last.calls[1].posted
    /\ BagCardinality(inFlight) = 1

-----------------------------------------------------------------------------
(* C8 *)

\* C8: a rejected post changes nothing but the set of pending posts: the
\* engine, the restart history, the cycles and polls in flight and the
\* history file stay as they were.  Whatever was rejected before, a cycle
\* stores the aggregated count of every name of its snapshot, evaluates every
\* instance of the names that did not restart, and goes on to
\* logStatusToFile.
C8_DeliveryFailureAbortsNothing ==
    [][/\ (last'.op = "post" /\ ~last'.ok) =>
             UNCHANGED <<pc, appRestartHistory, cycles, polls, file, started, now>>
       /\ CycleRan(last') =>
             /\ \A n \in NameSet(last'.processes) :
                   /\ n \in DOMAIN appRestartHistory'
                   /\ appRestartHistory'[n] = Aggregated(last'.processes, n)
                   /\ n \notin last'.restartedApps =>
                         IdsOf(last'.processes, n)
                            \subseteq {last'.checked[k] : k \in 1..Len(last'.checked)}
             /\ \E i \in 1..Len(cycles) :
                   /\ cycles[i].pc = "fetch"
                   /\ cycles' = [cycles EXCEPT ![i] =
                         [pc |-> "read", processes |-> Logged(last'.processes),
                          history |-> <<>>, stdout |-> NoStdout]]]_vars

\* The eager cycle detected a restart, so that it called for 'Process Restart
\* Detected' with an empty cache; that post is neither pending nor recorded:
\* it was rejected.  The poll is there and the history entry is written.
C8_Witness ==
    /\ started = 1
    /\ cycles = <<>>
    /\ Len(polls) = 1
    /\ inFlight = EmptyBag
    /\ notificationThrottleCache = <<>>
    /\ Len(file) = 1
    /\ file[1].processes = <<"api">>

-----------------------------------------------------------------------------
(* C10 *)

\* C10: the file never holds more than MAX_HISTORY entries and its
\* timestamps never increase from front to back.  An append puts its entry,
\* stamped with the current time, in front of what it read and keeps the
\* first MAX_HISTORY entries of the result in their order, so that what it
\* drops is the tail of what it read; the write stores exactly that, and
\* nothing else changes the file.
C10_HistoryCappedNewestFirst ==
    [][/\ Len(file') <= MAX_HISTORY
       /\ \A k \in 1..(Len(file') - 1) : file'[k].timestamp >= file'[k + 1].timestamp
       /\ last'.op = "logStatusToFile" =>
             \E i \in 1..Len(cycles) :
                /\ cycles[i].pc = "read"
                /\ cycles'[i].pc = "write"
                /\ LET read == IF last'.ok THEN file ELSE <<>>
                       h == cycles'[i].history
                   IN  /\ Len(h) = IF Len(read) + 1 <= MAX_HISTORY
                                   THEN Len(read) + 1 ELSE MAX_HISTORY
                       /\ h[1] = [timestamp |-> now, processes |-> cycles[i].processes]
                       /\ \A k \in 2..Len(h) : h[k] = read[k - 1]
       /\ (last'.op = "writeFile" /\ last'.ok) =>
             \E i \in 1..Len(cycles) : cycles[i].pc = "write" /\ file' = cycles[i].history
       /\ file' # file => (last'.op = "writeFile" /\ last'.ok)]_vars

\* The file was full when the engine started; an append of this run is in
\* front and the oldest entry of the old file is gone.
C10_Witness ==
    /\ Len(file) = MAX_HISTORY
    /\ file[1].timestamp >= 0
    /\ file[MAX_HISTORY].timestamp = 0 - (MAX_HISTORY - 1)

-----------------------------------------------------------------------------
(* C11 *)

NamesIn(ps) == {ps[i].name : i \in 1..Len(ps)}

LoggedNames(history) == UNION {{history[k].processes[j] : j \in 1..Len(history[k].processes)}
                                 : k \in 1..Len(history)}

\* C11: no name of EXCLUDED_APPS is ever in a snapshot that
\* getPm2Processes returned, the subject of a call of sendSlackNotification
\* or of a pending post, a key of the restart history, the name of a poll,
\* or in an entry of the history, be it written or about to be.
C11_ExcludedNeverSeen ==
    /\ NamesIn(last.processes) \cap EXCLUDED_APPS = {}
    /\ \A k \in 1..Len(last.calls) : last.calls[k].appName \notin EXCLUDED_APPS
    /\ \A post \in BagToSet(inFlight) : post.key[1] \notin EXCLUDED_APPS
    /\ DOMAIN appRestartHistory \cap EXCLUDED_APPS = {}
    /\ \A i \in 1..Len(polls) : polls[i].appName \notin EXCLUDED_APPS
    /\ LoggedNames(file) \cap EXCLUDED_APPS = {}
    /\ \A i \in 1..Len(cycles) :
          /\ {cycles[i].processes[j] : j \in 1..Len(cycles[i].processes)}
                \cap EXCLUDED_APPS = {}
          /\ LoggedNames(cycles[i].history) \cap EXCLUDED_APPS = {}

\* A cycle whose raw list held the monitor (errored, restarted) after a
\* stopped "api": the filter removed one element, only "api" was evaluated,
\* and the entry written to the file names only "api".
C11_Witness ==
    /\ Len(file) = 1
    /\ file[1].processes = <<"api">>
    /\ last.op = "poll"
    /\ last.filtered = 1
    /\ Len(last.processes) = 1
    /\ DOMAIN appRestartHistory = {"api"}

-----------------------------------------------------------------------------
(* C12 *)

\* C12: when the webhook URL does not pass the check of line 222, the
\* engine is either before that check or has exited: it never awaits the
\* seeding fetch, stores no restart count, has no cycle scheduled or run, no
\* poll, no call of sendSlackNotification and no post, and writes no history.
C12_NoCredentialNoWork ==
    ~webhookUrlValid =>
        /\ pc \in {"start", "exited"}
        /\ appRestartHistory = <<>>
        /\ started = 0
        /\ cycles = <<>>
        /\ polls = <<>>
        /\ inFlight = EmptyBag
        /\ notificationThrottleCache = <<>>
        /\ file = <<>>
        /\ last = Log("none")

\* The check of line 222 failed and process.exit(1) ran.
C12_Witness == ~webhookUrlValid /\ pc = "exited"

-----------------------------------------------------------------------------
(* C13 *)

\* C13: once a poll has reached a terminal state (its interval is cleared)
\* it attempts no further notification: a continuation that runs for a poll
\* whose interval is already cleared calls sendSlackNotification for
\* nothing.
C13_NoCallAfterTerminal ==
    (last.op = "poll" /\ ~last.active) => last.calls = <<>>

-----------------------------------------------------------------------------
(* C14 *)

\* C14: after a cycle ran its detection, the stored total of every name of
\* the snapshot is the aggregated total of the snapshot, be the name new, its
\* total unchanged, lower or higher; the totals of the other names are kept.
\* A name that is new, or whose total is not above the stored one, is not in
\* the restarted set, gets no 'Process Restart Detected' call and no poll,
\* and all its instances are evaluated; a total above the stored one,
\* lowered or not by an earlier cycle, puts the name in the restarted set.
C14_StoredTotalFollowsSnapshot ==
    [][CycleRan(last') =>
         /\ \A n \in NameSet(last'.processes) :
               LET total == Aggregated(last'.processes, n)
               IN  /\ n \in DOMAIN appRestartHistory'
                   /\ appRestartHistory'[n] = total
                   /\ (n \notin DOMAIN appRestartHistory \/ total <= appRestartHistory[n])
                      => /\ n \notin last'.restartedApps
                         /\ CallsFor(last'.calls, n, TitleRestartDetected) = {}
                         /\ Cardinality(PollsOf(polls', n)) = Cardinality(PollsOf(polls, n))
                         /\ IdsOf(last'.processes, n)
                               \subseteq {last'.checked[k] : k \in 1..Len(last'.checked)}
                   /\ (n \in DOMAIN appRestartHistory /\ total > appRestartHistory[n])
                      => /\ n \in last'.restartedApps
                         /\ Cardinality(PollsOf(polls', n))
                               = Cardinality(PollsOf(polls, n)) + 1
         /\ \A n \in DOMAIN appRestartHistory \ NameSet(last'.processes) :
               n \in DOMAIN appRestartHistory' /\ appRestartHistory'[n] = appRestartHistory[n]]_vars

\* The total of "api" went down from the stored 1 to 0: 0 is now stored, no
\* restart was detected and the instance was evaluated.
C14_Witness ==
    /\ CycleRan(last)
    /\ "api" \in DOMAIN last.previous
    /\ last.previous["api"] = 1
    /\ Aggregated(last.processes, "api") = 0
    /\ appRestartHistory["api"] = 0
    /\ last.restartedApps = {}
    /\ last.checked = <<0>>

-----------------------------------------------------------------------------
(* C15 *)

\* C15: a poll reaches a terminal state after at most RECHECK_MAX_ATTEMPTS
\* timer ticks: as long as its interval is set, the interval has fired at
\* most RECHECK_MAX_ATTEMPTS times.
C15_TerminalWithinBudgetTicks ==
    \A i \in 1..Len(polls) :
        polls[i].active => polls[i].attempts <= RECHECK_MAX_ATTEMPTS

-----------------------------------------------------------------------------
(* C16 *)

\* C16: a poll that went to Errored never reports Stabilized or Failed
\* afterwards: a continuation that runs for a poll ended by a fetch fault
\* makes no 'Restart Successful' and no 'Restart Failed' call.
C16_ErroredNeverReportsOutcome ==
    (last.op = "poll" /\ last.ended = "error") =>
        \A k \in 1..Len(last.calls) :
            last.calls[k].title \notin {TitleRestartSuccessful, TitleRestartFailed}

-----------------------------------------------------------------------------
(* C17 *)

\* The step was taken by the interval callback of poll i, or by the
\* continuation of one of its fetches: poll i alone changed or went away.
OnlyPollChanged(i) ==
    \/ polls' = RemoveAt(polls, i)
    \/ /\ Len(polls') = Len(polls)
       /\ polls'[i].appName = polls[i].appName
       /\ polls'[i].attempts \in {polls[i].attempts, polls[i].attempts + 1}
       /\ \A j \in 1..Len(polls) : j # i => polls'[j] = polls[j]

\* C17: a cycle adds one poll per restarted name, with attempts = 0 and a
\* live interval, whatever polls are in flight, and leaves the polls in
\* flight as they are.  Every other step that changes the polls changes one
\* poll only, and changes neither the restart history nor a cycle; the
\* restart history changes only in the seeding and in a cycle.
C17_PollsIndependent ==
    [][/\ CycleRan(last') =>
             /\ Len(polls') = Len(polls) + Cardinality(last'.restartedApps)
             /\ SubSeq(polls', 1, Len(polls)) = polls
             /\ \A n \in last'.restartedApps :
                   \E k \in (Len(polls) + 1)..Len(polls') :
                      polls'[k] = [appName |-> n, attempts |-> 0, active |-> TRUE,
                                   pending |-> 0, ended |-> ""]
       /\ (polls' # polls /\ ~CycleRan(last')) =>
             /\ \E i \in 1..Len(polls) : OnlyPollChanged(i)
             /\ UNCHANGED <<appRestartHistory, cycles, file, pc, started>>
       /\ appRestartHistory' # appRestartHistory =>
             last'.op \in {"seed", "monitorProcesses"}]_vars

\* Two polls of "api" run side by side, each with its own count.
C17_Witness ==
    /\ Len(polls) = 2
    /\ polls[1].appName = "api"
    /\ polls[2].appName = "api"
    /\ polls[1].attempts = 3
    /\ polls[2].attempts = 1
    /\ polls[1].active
    /\ polls[2].active

-----------------------------------------------------------------------------
(* C18 *)

\* C18: once the credential check has passed, a fault of getPm2Processes
\* never stops the engine: initialize() is before or in its seeding, or the
\* engine runs with its cycles scheduled.
C18_EngineKeepsRunning ==
    webhookUrlValid => pc \in {"start", "seeding", "running"}

-----------------------------------------------------------------------------
(* C19 *)

\* C19: with snapshots read from a daemon whose restart counts only go up,
\* the stored total of a name is never set back to the value of an older
\* snapshot: it never goes down.
C19_StoredTotalNeverSetBack ==
    [][\A n \in DOMAIN appRestartHistory :
          n \in DOMAIN appRestartHistory'
          /\ appRestartHistory'[n] >= appRestartHistory[n]]_vars

-----------------------------------------------------------------------------
(* C20 *)

\* C20: a cycle that finds the aggregated count of a name above the stored
\* one puts the name in the restarted set and starts a poll for it, and one
\* that finds it unchanged does neither.  A sample of a poll that is not all
\* online, with the budget not spent, makes no call and leaves a running
\* poll running; a sample that is all online ends the poll with one 'Restart
\* Successful' call whose message carries the cpu and memory of the first
\* instance of that very sample.
C20_StabilizedCarriesItsSample ==
    [][/\ CycleRan(last') =>
             \A n \in NameSet(last'.processes) :
                IF n \in DOMAIN appRestartHistory
                   /\ Aggregated(last'.processes, n) > appRestartHistory[n]
                THEN /\ n \in last'.restartedApps
                     /\ Cardinality(PollsOf(polls', n)) = Cardinality(PollsOf(polls, n)) + 1
                ELSE /\ n \notin last'.restartedApps
                     /\ Cardinality(PollsOf(polls', n)) = Cardinality(PollsOf(polls, n))
       /\ (last'.op = "poll" /\ last'.ok) =>
             LET inst == SelectSeq(last'.processes, LAMBDA p : p.name = last'.appName)
                 online == Len(inst) > 0 /\ \A k \in 1..Len(inst) : inst[k].status = "online"
             IN  \E i \in 1..Len(polls) :
                    /\ polls[i].appName = last'.appName
                    /\ polls[i].attempts = last'.attempts
                    /\ IF online
                       THEN /\ Len(last'.calls) = 1
                            /\ last'.calls[1].appName = last'.appName
                            /\ last'.calls[1].title = TitleRestartSuccessful
                            /\ last'.calls[1].message.nums = <<inst[1].cpu, inst[1].memory>>
                            /\ \/ polls' = RemoveAt(polls, i)
                               \/ (Len(polls') = Len(polls) /\ ~polls'[i].active)
                       ELSE last'.attempts < RECHECK_MAX_ATTEMPTS =>
                            /\ last'.calls = <<>>
                            /\ polls[i].active =>
                                  (Len(polls') = Len(polls) /\ polls'[i].active)]_vars

\* The eager cycle read the count the seeding had stored and the scheduled
\* cycle read a higher one, which is the stored one now; the one poll has
\* ended at its second tick, with both fetches returned and the interval
\* still set when the second came back: the first sample was not all online,
\* the second is the cluster online, and 'Restart Successful' carries the
\* readings of its instance 0 (85 %, 450.01 MB), not those of instance 1.
C20_Witness ==
    /\ started = 2
    /\ Len(cycles) = 2
    /\ cycles[1].pc = "read"
    /\ cycles[2].pc = "read"
    /\ cycles[1].stdout.list[1].restart_time = 0
    /\ cycles[2].stdout.list[1].restart_time = 1
    /\ appRestartHistory["api"] = 1
    /\ polls = <<>>
    /\ last.op = "poll"
    /\ last.active
    /\ last.attempts = 2
    /\ Len(last.processes) = 2
    /\ last.processes[2].cpu = 80
    /\ Len(last.calls) = 1
    /\ last.calls[1].title = TitleRestartSuccessful
    /\ last.calls[1].message.nums = <<85, 45001>>

====
